---- MODULE Spec2Model ----
(***************************************************************************)
(* Cache staleness checking, single-cinema resolution and bulk sync of the *)
(* alamo-movies command line tool (src/alamo_movies/cli.rs, src/main.rs).  *)
(*                                                                         *)
(* One behaviour is one run of the program: Init is the cache directory    *)
(* and the clock the process finds, a sub-command is started, its steps    *)
(* run, and the process ends with an exit status.                          *)
(*                                                                         *)
(* Time is counted in units of 1/UnitsPerHour hour.                        *)
(***************************************************************************)
EXTENDS Integers, Sequences, FiniteSets, TLC

\* ---------------------------------------------------------------- bounds
NumCinemas == 2
MaxStamp == 1
UnitsPerHour == 2
MaxOver == 1

\* cli.rs:161  `duration.num_hours() > 24`
HoursThreshold == 24

Cinemas == 1..NumCinemas
Stamps == 0..MaxStamp

\* Clock readings (Utc::now()): at the oldest stamp, and around the threshold,
\* from one unit short of 24 hours to MaxOver units past 25 hours.
NowValues ==
    {0} \cup ((HoursThreshold * UnitsPerHour - 1) ..
              ((HoursThreshold + 1) * UnitsPerHour + MaxOver))

\* ------------------------------------------------------- calendar files
\* A calendar file: whether it exists, whether it is JSON, whether it decodes
\* into the cinema/market/film schema, and Calendar.FeedGenerated: absent, or
\* a string made of a date-time part (well formed or not, with its instant dt)
\* followed by the designators in sfx ("Z", "+00:00").
File(e, j, s, h, ok, dt, sfx) ==
    [exists |-> e, json |-> j, schema |-> s, hasFeed |-> h,
     dtOk |-> ok, dt |-> dt, sfx |-> sfx]

NoFile == File(FALSE, FALSE, FALSE, FALSE, FALSE, 0, <<>>)
NotJson == File(TRUE, FALSE, FALSE, FALSE, FALSE, 0, <<>>)
NoFeed == File(TRUE, TRUE, TRUE, FALSE, FALSE, 0, <<>>)
JunkFeed == File(TRUE, TRUE, TRUE, TRUE, FALSE, 0, <<>>)
NoSchema == File(TRUE, TRUE, FALSE, TRUE, TRUE, 0, <<>>)
Plain(s) == File(TRUE, TRUE, TRUE, TRUE, TRUE, s, <<>>)
WithZ(s) == File(TRUE, TRUE, TRUE, TRUE, TRUE, s, <<"Z">>)
WithOffset(s) == File(TRUE, TRUE, TRUE, TRUE, TRUE, s, <<"+00:00">>)

FileValues ==
    {NoFile, NotJson, NoFeed, JunkFeed, NoSchema, WithOffset(0)}
        \cup {Plain(s) : s \in Stamps} \cup {WithZ(s) : s \in Stamps}

\* ------------------------------------------------------------ variables
VARIABLES
    fs,           \* cinema id -> calendar file at db::calendar_path_for_cinema_id
    dirExists,    \* db::base_directory_path().is_dir()
    now,          \* Utc::now()
    cmd,          \* the sub-command running
    updateOnly,   \* get-all --update-only
    cinema_ids,   \* subcommand_get_all: the ids to sync
    idx,          \* subcommand_get_all: position of the for loop
    error_count,  \* subcommand_get_all: error_count
    rpc,          \* cinema id -> position of its resolution
    exitStatus,   \* "running", "ok" (return), "exit1" (exit(1)), "panic"
    verdict,      \* cinema id -> what check_local_file returned for it
    syncCalls,    \* cinema id -> calls of Cinema::sync_file
    syncFails,    \* cinema id -> calls of Cinema::sync_file that returned Err
    loadCalls,    \* cinema id -> calls of Cinema::from_calendar_file
    returned      \* cinema id -> the file whose data reached the caller

vars == <<fs, dirExists, now, cmd, updateOnly, cinema_ids, idx, error_count,
          rpc, exitStatus, verdict, syncCalls, syncFails, loadCalls, returned>>

Running == exitStatus = "running"

\* ----------------------------------------------------- staleness checker
\* chrono Duration::num_hours: whole hours, truncated toward zero.
num_hours(d) ==
    IF d >= 0 THEN d \div UnitsPerHour ELSE -((-d) \div UnitsPerHour)

\* cli.rs:152  String::from(...) + "Z"
append_designator(sfx) == Append(sfx, "Z")

\* DateTime::parse_from_rfc3339: a well-formed date-time followed by exactly
\* one designator.
parse_from_rfc3339(dtOk, sfx) == dtOk /\ Len(sfx) = 1

\* cli.rs:161
is_expired(duration) == num_hours(duration) > HoursThreshold

\* check_local_file, as a verdict: "Fresh" is Ok(()), "Missing" is
\* Err(NoCalendarFile), "Expired" is Err(ExpiredCalendarFile), "Malformed" is
\* the serde_json / chrono error returned by `?`, "Panic" is the unwrap() of
\* as_str() on a FeedGenerated that is no string.
check_local_file(f, t) ==
    IF ~f.exists THEN "Missing"
    ELSE IF ~f.json THEN "Malformed"
    ELSE IF ~f.hasFeed THEN "Panic"
    ELSE LET date_time == append_designator(f.sfx) IN
         IF ~parse_from_rfc3339(f.dtOk, date_time) THEN "Malformed"
         ELSE IF is_expired(t - f.dt) THEN "Expired"
         ELSE "Fresh"

\* ------------------------------------------- collaborators outside src/
\* The payload Cinema::sync_file writes on success: the feed as generated now.
RemotePayload(t) == Plain(t)

\* Cinema::sync_file returning Ok: the cache file is overwritten.
sync_file_ok(id) ==
    /\ fs' = [fs EXCEPT ![id] = RemotePayload(now)]
    /\ dirExists' = TRUE
    /\ syncCalls' = [syncCalls EXCEPT ![id] = @ + 1]
    /\ UNCHANGED syncFails

\* Cinema::sync_file returning Err: nothing is written.
sync_file_err(id) ==
    /\ syncCalls' = [syncCalls EXCEPT ![id] = @ + 1]
    /\ syncFails' = [syncFails EXCEPT ![id] = @ + 1]
    /\ UNCHANGED <<fs, dirExists>>

\* Cinema::from_calendar_file returns Ok.
from_calendar_file(f) == f.exists /\ f.json /\ f.schema

\* Cinema::list(): the static catalog, in its order.
CinemaList == [i \in 1..NumCinemas |-> i]

Orderings(S) ==
    {s \in [1..Cardinality(S) -> S] : \A i, j \in DOMAIN s : i # j => s[i] # s[j]}

\* db::list_cinema_ids: the ids with a calendar file, in directory order.
list_cinema_ids == Orderings({id \in Cinemas : fs[id].exists})

\* --------------------------------------------------------------- Init
Init ==
    /\ dirExists \in BOOLEAN
    /\ fs \in [Cinemas -> FileValues]
    /\ ~dirExists => \A id \in Cinemas : fs[id] = NoFile
    /\ now \in NowValues
    /\ cmd = "none"
    /\ updateOnly = FALSE
    /\ cinema_ids = <<>>
    /\ idx = 1
    /\ error_count = 0
    /\ rpc = [id \in Cinemas |-> "idle"]
    /\ exitStatus = "running"
    /\ verdict = [id \in Cinemas |-> "None"]
    /\ syncCalls = [id \in Cinemas |-> 0]
    /\ syncFails = [id \in Cinemas |-> 0]
    /\ loadCalls = [id \in Cinemas |-> 0]
    /\ returned = [id \in Cinemas |-> NoFile]

\* ------------------------------------------ cli.rs: single resolution
\* subcommand_films -> films_for / filtered_films_for
subcommand_films(id) ==
    /\ Running /\ cmd = "none"
    /\ cmd' = "films"
    /\ rpc' = [rpc EXCEPT ![id] = "check"]
    /\ UNCHANGED <<fs, dirExists, now, updateOnly, cinema_ids, idx, error_count,
                   exitStatus, verdict, syncCalls, syncFails, loadCalls, returned>>

\* subcommand_cinema with a cinema id
subcommand_cinema(id) ==
    /\ Running /\ cmd = "none"
    /\ cmd' = "cinema"
    /\ rpc' = [rpc EXCEPT ![id] = "check"]
    /\ UNCHANGED <<fs, dirExists, now, updateOnly, cinema_ids, idx, error_count,
                   exitStatus, verdict, syncCalls, syncFails, loadCalls, returned>>

\* subcommand_cinema without an id, --local: get_cinema_list up to par_iter
get_cinema_list ==
    /\ Running /\ cmd = "none"
    /\ cmd' = "cinema-local"
    /\ IF ~dirExists
          THEN /\ exitStatus' = "ok"
               /\ UNCHANGED rpc
          ELSE /\ rpc' = [id \in Cinemas |->
                             IF fs[id].exists THEN "check" ELSE "idle"]
               /\ UNCHANGED exitStatus
    /\ UNCHANGED <<fs, dirExists, now, updateOnly, cinema_ids, idx, error_count,
                   verdict, syncCalls, syncFails, loadCalls, returned>>

InResolution == cmd \in {"films", "cinema", "cinema-local"}

\* the check ignored: every resolution syncs first
needs_sync_always(v) == TRUE

\* cli.rs:122  if let Err(_) = check_local_file(&path)
needs_sync(v) == v # "Fresh"

\* load_or_sync_cinema_for_id, line 122: the staleness check
load_or_sync_check(id) ==
    /\ Running /\ InResolution /\ rpc[id] = "check"
    /\ LET v == check_local_file(fs[id], now) IN
         /\ verdict' = [verdict EXCEPT ![id] = v]
         /\ IF v = "Panic"
               THEN /\ rpc' = [rpc EXCEPT ![id] = "panicked"]
                    \* a panic on the main thread ends the process; one in a
                    \* pool worker is held until the parallel iterator joins
                    /\ exitStatus' =
                          IF cmd = "cinema-local" THEN exitStatus ELSE "panic"
               ELSE /\ rpc' = [rpc EXCEPT ![id] =
                                  IF needs_sync(v) THEN "sync" ELSE "load"]
                    /\ UNCHANGED exitStatus
    /\ UNCHANGED <<fs, dirExists, now, cmd, updateOnly, cinema_ids, idx,
                   error_count, syncCalls, syncFails, loadCalls, returned>>

\* the Err arm of lines 124-128 falling through to the load
load_or_sync_sync_fallback(id) ==
    /\ Running /\ InResolution /\ rpc[id] = "sync"
    /\ \/ sync_file_ok(id)
       \/ sync_file_err(id)
    /\ rpc' = [rpc EXCEPT ![id] = "load"]
    /\ UNCHANGED <<now, cmd, updateOnly, cinema_ids, idx, error_count,
                   exitStatus, verdict, loadCalls, returned>>

\* load_or_sync_cinema_for_id, lines 123-130: the sync
load_or_sync_sync(id) ==
    /\ Running /\ InResolution /\ rpc[id] = "sync"
    /\ \/ /\ sync_file_ok(id)
          /\ rpc' = [rpc EXCEPT ![id] = "load"]
          /\ UNCHANGED exitStatus
       \/ /\ sync_file_err(id)
          /\ rpc' = [rpc EXCEPT ![id] = "failed"]
          /\ exitStatus' = "exit1"
    /\ UNCHANGED <<now, cmd, updateOnly, cinema_ids, idx, error_count,
                   verdict, loadCalls, returned>>

\* load_or_sync_cinema_for_id, lines 133-139: the load
load_or_sync_load(id) ==
    /\ Running /\ InResolution /\ rpc[id] = "load"
    /\ loadCalls' = [loadCalls EXCEPT ![id] = @ + 1]
    /\ IF from_calendar_file(fs[id])
          THEN /\ returned' = [returned EXCEPT ![id] = fs[id]]
               /\ rpc' = [rpc EXCEPT ![id] = "done"]
               /\ UNCHANGED exitStatus
          ELSE /\ rpc' = [rpc EXCEPT ![id] = "failed"]
               /\ exitStatus' = "exit1"
               /\ UNCHANGED returned
    /\ UNCHANGED <<fs, dirExists, now, cmd, updateOnly, cinema_ids, idx,
                   error_count, verdict, syncCalls, syncFails>>

\* subcommand_films / subcommand_cinema: print what was loaded and return
subcommand_print ==
    /\ Running /\ cmd \in {"films", "cinema"}
    /\ \E id \in Cinemas : rpc[id] = "done"
    /\ exitStatus' = "ok"
    /\ UNCHANGED <<fs, dirExists, now, cmd, updateOnly, cinema_ids, idx,
                   error_count, rpc, verdict, syncCalls, syncFails, loadCalls,
                   returned>>

\* get_cinema_list: collect() joins the workers, then sort and return; a
\* worker's panic resumes on the caller once every item has been processed
get_cinema_list_collect ==
    /\ Running /\ cmd = "cinema-local"
    /\ \A id \in Cinemas : rpc[id] \in {"idle", "done", "panicked"}
    /\ exitStatus' =
          IF \E id \in Cinemas : rpc[id] = "panicked" THEN "panic" ELSE "ok"
    /\ UNCHANGED <<fs, dirExists, now, cmd, updateOnly, cinema_ids, idx,
                   error_count, rpc, verdict, syncCalls, syncFails, loadCalls,
                   returned>>

\* ------------------------------------------------- cli.rs: bulk sync
\* --update-only ignored: the catalog either way
get_all_cinema_ids_catalog(uo) == {CinemaList}

\* subcommand_get_all, lines 80-96: the ids to sync
get_all_cinema_ids(uo) == IF uo THEN list_cinema_ids ELSE {CinemaList}

\* subcommand_get_all, lines 79-98
subcommand_get_all(uo) ==
    /\ Running /\ cmd = "none"
    /\ cmd' = "get-all"
    /\ updateOnly' = uo
    /\ IF uo /\ ~dirExists
          THEN /\ exitStatus' = "ok"
               /\ UNCHANGED cinema_ids
          ELSE /\ \E ids \in get_all_cinema_ids(uo) : cinema_ids' = ids
               /\ UNCHANGED exitStatus
    /\ UNCHANGED <<fs, dirExists, now, idx, error_count, rpc, verdict,
                   syncCalls, syncFails, loadCalls, returned>>

\* the Err arm counting nothing
sync_result_count_zero(ok) == 0

\* subcommand_get_all, lines 101-110: what one sync adds to error_count
sync_result_count(ok) == IF ok THEN 0 ELSE 1

\* one iteration that resolves the id the single-cinema way
subcommand_get_all_step_resolve ==
    /\ Running /\ cmd = "get-all" /\ idx <= Len(cinema_ids)
    /\ LET id == cinema_ids[idx] IN
         IF check_local_file(fs[id], now) = "Fresh"
            THEN UNCHANGED <<fs, dirExists, syncCalls, syncFails, error_count>>
            ELSE \/ /\ sync_file_ok(id)
                    /\ error_count' = error_count + sync_result_count(TRUE)
                 \/ /\ sync_file_err(id)
                    /\ error_count' = error_count + sync_result_count(FALSE)
    /\ idx' = idx + 1
    /\ UNCHANGED <<now, cmd, updateOnly, cinema_ids, rpc, exitStatus, verdict,
                   loadCalls, returned>>

\* subcommand_get_all, lines 100-111: one iteration of the for loop
subcommand_get_all_step ==
    /\ Running /\ cmd = "get-all" /\ idx <= Len(cinema_ids)
    /\ LET id == cinema_ids[idx] IN
         \/ /\ sync_file_ok(id)
            /\ error_count' = error_count + sync_result_count(TRUE)
         \/ /\ sync_file_err(id)
            /\ error_count' = error_count + sync_result_count(FALSE)
    /\ idx' = idx + 1
    /\ UNCHANGED <<now, cmd, updateOnly, cinema_ids, rpc, exitStatus, verdict,
                   loadCalls, returned>>

\* subcommand_get_all, lines 113-116
subcommand_get_all_exit ==
    /\ Running /\ cmd = "get-all" /\ idx > Len(cinema_ids)
    /\ exitStatus' = IF error_count > 0 THEN "exit1" ELSE "ok"
    /\ UNCHANGED <<fs, dirExists, now, cmd, updateOnly, cinema_ids, idx,
                   error_count, rpc, verdict, syncCalls, syncFails, loadCalls,
                   returned>>

\* --------------------------------------------- main.rs: list_films_for
\* main, lines 51-54
list_films_for(id) ==
    /\ Running /\ cmd = "none"
    /\ cmd' = "main-films"
    /\ rpc' = [rpc EXCEPT ![id] = "check"]
    /\ UNCHANGED <<fs, dirExists, now, updateOnly, cinema_ids, idx, error_count,
                   exitStatus, verdict, syncCalls, syncFails, loadCalls, returned>>

\* list_films_for, line 81: if ! path.is_file()
list_films_for_check(id) ==
    /\ Running /\ cmd = "main-films" /\ rpc[id] = "check"
    /\ rpc' = [rpc EXCEPT ![id] = IF ~fs[id].exists THEN "sync" ELSE "load"]
    /\ UNCHANGED <<fs, dirExists, now, cmd, updateOnly, cinema_ids, idx,
                   error_count, exitStatus, verdict, syncCalls, syncFails,
                   loadCalls, returned>>

\* list_films_for, lines 82-85
list_films_for_sync(id) ==
    /\ Running /\ cmd = "main-films" /\ rpc[id] = "sync"
    /\ \/ /\ sync_file_ok(id)
          /\ rpc' = [rpc EXCEPT ![id] = "load"]
          /\ UNCHANGED exitStatus
       \/ /\ sync_file_err(id)
          /\ rpc' = [rpc EXCEPT ![id] = "panicked"]
          /\ exitStatus' = "panic"
    /\ UNCHANGED <<now, cmd, updateOnly, cinema_ids, idx, error_count,
                   verdict, loadCalls, returned>>

\* list_films_for, lines 88-93
list_films_for_load(id) ==
    /\ Running /\ cmd = "main-films" /\ rpc[id] = "load"
    /\ loadCalls' = [loadCalls EXCEPT ![id] = @ + 1]
    /\ IF from_calendar_file(fs[id])
          THEN /\ returned' = [returned EXCEPT ![id] = fs[id]]
               /\ rpc' = [rpc EXCEPT ![id] = "done"]
               /\ exitStatus' = "ok"
          ELSE /\ rpc' = [rpc EXCEPT ![id] = "panicked"]
               /\ exitStatus' = "panic"
               /\ UNCHANGED returned
    /\ UNCHANGED <<fs, dirExists, now, cmd, updateOnly, cinema_ids, idx,
                   error_count, verdict, syncCalls, syncFails>>

\* ---------------------------------------------------------------- Next
Next ==
    \/ \E id \in Cinemas : subcommand_films(id)
    \/ \E id \in Cinemas : subcommand_cinema(id)
    \/ get_cinema_list
    \/ \E id \in Cinemas : load_or_sync_check(id)
    \/ \E id \in Cinemas : load_or_sync_sync(id)
    \/ \E id \in Cinemas : load_or_sync_load(id)
    \/ subcommand_print
    \/ get_cinema_list_collect
    \/ \E uo \in BOOLEAN : subcommand_get_all(uo)
    \/ subcommand_get_all_step
    \/ subcommand_get_all_exit
    \/ \E id \in Cinemas : list_films_for(id)
    \/ \E id \in Cinemas : list_films_for_check(id)
    \/ \E id \in Cinemas : list_films_for_sync(id)
    \/ \E id \in Cinemas : list_films_for_load(id)

Spec == Init /\ [][Next]_vars

\* ============================================================== claims
Day == HoursThreshold * UnitsPerHour

\* The file check_local_file read for id is still fs[id]: the check has run
\* and no sync for id has been issued since.
JustChecked(id) == verdict[id] # "None" /\ syncCalls[id] = 0

\* A file whose FeedGenerated is a well-formed date-time without designator,
\* the form the feed publishes.
PlainStamped(f) == f.exists /\ f.json /\ f.hasFeed /\ f.dtOk /\ f.sfx = <<>>

\* C1: check_local_file classifies a cache file by elapsed = now -
\* FeedGenerated: Expired whenever elapsed is more than 24 hours (also between
\* 24 and 25 hours), Fresh whenever it is less than 24 hours (also when
\* negative), and Missing when there is no file.
C1_ClassifiedByElapsed ==
    \A id \in Cinemas :
        JustChecked(id) =>
            /\ ~fs[id].exists => verdict[id] = "Missing"
            /\ PlainStamped(fs[id]) =>
                  /\ now - fs[id].dt > Day => verdict[id] = "Expired"
                  /\ now - fs[id].dt < Day => verdict[id] = "Fresh"

\* C2: resolution never returns data whose generation timestamp is more than
\* 24 hours old unless exactly one sync call for that id was attempted before.
C2_NoStaleDataWithoutSync ==
    \A id \in Cinemas :
        (returned[id].exists /\ returned[id].hasFeed /\ returned[id].dtOk
            /\ now - returned[id].dt > Day)
        => syncCalls[id] = 1

\* C3: when the staleness verdict is not Fresh and the sync call that follows
\* fails, the resolution stops with a failure: the loader is never invoked
\* for that id and no data of the existing cache file reaches the caller.
C3_SyncFailureStops ==
    \A id \in Cinemas :
        (verdict[id] \notin {"None", "Fresh"} /\ syncFails[id] >= 1)
        => /\ exitStatus = "exit1"
           /\ rpc[id] = "failed"
           /\ loadCalls[id] = 0
           /\ returned[id] = NoFile

C3_Witness ==
    \E id \in Cinemas :
        /\ verdict[id] = "Expired"
        /\ syncFails[id] = 1
        /\ from_calendar_file(fs[id])
        /\ exitStatus = "exit1"

\* C4 as stated: in a bulk run without update-only, no sync call is issued
\* for an identifier whose cache file is Fresh when it is processed.
C4_FreshIsSkipped ==
    [][(cmd = "get-all" /\ ~updateOnly) =>
          \A id \in Cinemas :
              check_local_file(fs[id], now) = "Fresh"
              => syncCalls'[id] = syncCalls[id]]_vars

\* C4 amended: in a bulk run without update-only the ids are the static
\* catalog, and one sync call is issued for each id the loop has passed,
\* whether or not its cache file is Fresh; none for the ids still ahead.
C4_CatalogAlwaysSynced ==
    (cmd = "get-all" /\ ~updateOnly) =>
        /\ cinema_ids = CinemaList
        /\ \A i \in 1..Len(cinema_ids) :
              syncCalls[cinema_ids[i]] = IF i < idx THEN 1 ELSE 0

\* a Fresh file whose id was synced all the same (the sync failed, so the
\* file is still the one the loop found)
C4_Witness ==
    /\ cmd = "get-all" /\ ~updateOnly
    /\ \E id \in Cinemas :
          /\ syncCalls[id] = 1 /\ syncFails[id] = 1
          /\ check_local_file(fs[id], now) = "Fresh"

Failed == {id \in Cinemas : syncFails[id] = 1}
Succeeded == {id \in Cinemas : syncCalls[id] = 1 /\ syncFails[id] = 0}

\* C5: in a bulk run over N ids of which k syncs fail, every id is attempted
\* exactly once before the run reports, the failure count is k with N-k
\* successes, and the run exits non-zero iff k >= 1, after all N attempts.
C5_BulkCountsFailures ==
    cmd = "get-all" =>
        /\ error_count = Cardinality(Failed)
        /\ \A id \in Cinemas : syncCalls[id] <= 1
        /\ exitStatus # "running" =>
              /\ \A i \in 1..Len(cinema_ids) : syncCalls[cinema_ids[i]] = 1
              /\ Cardinality(Succeeded) = Len(cinema_ids) - error_count
              /\ exitStatus = "exit1" <=> error_count >= 1

\* the first id failed, the others were still synced, and the run failed
C5_Witness ==
    /\ cmd = "get-all" /\ exitStatus = "exit1"
    /\ Len(cinema_ids) = NumCinemas
    /\ Failed = {cinema_ids[1]}
    /\ Cardinality(Succeeded) = NumCinemas - 1

\* C6: with update-only, the ids synced are exactly the ids present in the
\* cache directory, each synced whether or not its file is Fresh; without a
\* cache directory no sync is issued and the run does not fail.
C6_UpdateOnlySyncsLocal ==
    (cmd = "get-all" /\ updateOnly) =>
        /\ \A id \in Cinemas :
              syncCalls[id] >= 1 => (fs[id].exists /\ syncCalls[id] = 1)
        /\ exitStatus # "running" =>
              \A id \in Cinemas : fs[id].exists => syncCalls[id] = 1
        /\ ~dirExists =>
              /\ exitStatus = "ok"
              /\ error_count = 0
              /\ \A id \in Cinemas : syncCalls[id] = 0

\* a Fresh local file was synced, an id without a file was not
C6_Witness ==
    /\ cmd = "get-all" /\ updateOnly /\ exitStatus # "running"
    /\ \E id, other \in Cinemas :
          /\ syncFails[id] = 1
          /\ check_local_file(fs[id], now) = "Fresh"
          /\ ~fs[other].exists /\ syncCalls[other] = 0

\* C7: for a cache file that exists but whose FeedGenerated is absent or
\* unparsable, check_local_file returns an error verdict instead of aborting,
\* and the resolution goes on to the sync.
C7_MalformedIsAnError ==
    \A id \in Cinemas :
        (InResolution /\ JustChecked(id)
            /\ fs[id].exists /\ fs[id].json
            /\ (~fs[id].hasFeed \/ ~fs[id].dtOk))
        => /\ verdict[id] = "Malformed"
           /\ rpc[id] = "sync"
           /\ exitStatus # "panic"

\* C8: when the verdict is Fresh the resolution goes straight to the load:
\* no sync call is issued and the cache file is left as it was.
C8_FreshGoesToLoad ==
    [][\A id \in Cinemas :
          verdict'[id] = "Fresh" =>
              /\ fs'[id] = fs[id]
              /\ syncCalls'[id] = 0
              /\ rpc'[id] \in {"load", "done", "failed"}]_vars

C8_Witness ==
    \E id \in Cinemas :
        /\ verdict[id] = "Fresh" /\ rpc[id] = "done"
        /\ returned[id] = fs[id] /\ syncCalls[id] = 0

\* C9: in the parallel local listing a sync or load failure of one id never
\* prevents the workers of the other ids from completing: when the run ends,
\* every listed id has been processed to the end.
C9_WorkersIndependent ==
    (cmd = "cinema-local" /\ exitStatus # "running") =>
        \A id \in Cinemas : rpc[id] \notin {"check", "sync", "load"}

\* C10: a timestamp that already carries a designator or offset is classified
\* like the same timestamp without it: Fresh when less than 24 hours old, so
\* no sync follows.
C10_DesignatorKept ==
    \A id \in Cinemas :
        (InResolution /\ JustChecked(id)
            /\ fs[id].exists /\ fs[id].json /\ fs[id].hasFeed /\ fs[id].dtOk
            /\ Len(fs[id].sfx) = 1 /\ now - fs[id].dt < Day)
        => /\ verdict[id] = check_local_file([fs[id] EXCEPT !.sfx = <<>>], now)
           /\ verdict[id] = "Fresh"
           /\ rpc[id] # "sync"

====
